---- MODULE Spec2Model ----
(***************************************************************************)
(* Model of the Python datasource plugin (src/src/python_datasource.cpp):  *)
(* python_datasource delegates type(), envelope(), get_geometry_type(),    *)
(* features() and features_at_point() to an object living in the embedded  *)
(* interpreter; python_featureset walks the iterator such a call returns.  *)
(* Host threads call in concurrently; interpreter state is protected by    *)
(* the interpreter lock (GIL), taken by the RAII guard ensure_gil.         *)
(***************************************************************************)
EXTENDS Integers, Sequences, FiniteSets, TLC

\* Longest external iterable that the "features" callables return.
MaxLen == 3

\* Host threads that may call into the adapter.
AllThreads == {"t1", "t2"}
NoThread == "nobody"

(***************************************************************************)
(* Interpreter values.  Every value is a record with a kind k.             *)
(***************************************************************************)
Absent == [k |-> "absent"]                \* the attribute does not exist
PyNone == [k |-> "None"]
PyStr == [k |-> "str"]                    \* neither a number nor a feature
PyInt(i) == [k |-> "int", v |-> i]
PyFloat(x) == [k |-> "float", v |-> x]
PyFeature(i) == [k |-> "feature", v |-> i]
PyEnvelope(a, b, c, d) == [k |-> "object", minx |-> a, miny |-> b, maxx |-> c, maxy |-> d]
\* An iterable: the elements its iterator yields, then StopIteration
\* (tail = "stop") or an exception raised by the iterator (tail = "raise").
PyIterable(items, tail) == [k |-> "iterable", items |-> items, tail |-> tail]
\* A callable attribute: what a call of it does.
PyCallable(ret) == [k |-> "callable", ret |-> ret]
Raises == [k |-> "raises"]                \* the call raises

\* Handles (boost::python::object): the external object, or None.
ExtHandle == "datasource"
NoneHandle == "None"

VARIABLES
    threads,    \* the host threads of this run
    ds,         \* the external object's attributes (interpreter state)
    adapter,    \* python_datasource's fields: datasource_, desc_
    gil,        \* interpreter lock: holder and per-thread PyGILState depth
    pc,         \* per thread: position in the adapter's code
    frame,      \* per thread: the running host call (op, arg, entry depth, ...)
    pyerr,      \* per thread: pending interpreter error indicator
    res,        \* per thread: outcome of the last finished host call
    fs,         \* per thread: the python_featureset the thread owns
    hadFailure  \* some host call on the adapter has failed so far

vars == <<threads, ds, adapter, gil, pc, frame, pyerr, res, fs, hadFailure>>

(***************************************************************************)
(* ensure_gil: PyGILState_Ensure / PyGILState_Release.                     *)
(***************************************************************************)
\* A lock that cannot be taken again by the thread that holds it.
CanEnsureOnce(g, t) == g.holder = NoThread

\* PyGILState_Ensure can return once the lock is free or already ours.
CanEnsure(g, t) == g.holder \in {NoThread, t}

PyGILState_Ensure(g, t) ==
    [holder |-> t, depth |-> [g.depth EXCEPT ![t] = @ + 1]]

PyGILState_Release(g, t) ==
    [holder |-> IF g.depth[t] = 1 THEN NoThread ELSE g.holder,
     depth |-> [g.depth EXCEPT ![t] = @ - 1]]

Holds(t) == gil.holder = t

(***************************************************************************)
(* Outcomes of a method body: how control leaves the guarded scope.        *)
(*   return                normal return of val                             *)
(*   error_already_set     boost::python::error_already_set, err pending    *)
(*   datasource_exception  thrown by the adapter itself, val is its text    *)
(*   bad_optional_access   boost::optional::value() on an empty optional    *)
(*   construct             (query bodies only) go on to build a featureset  *)
(* log lists the interpreter accesses the body made, in order.             *)
(***************************************************************************)
Return(v, log) == [kind |-> "return", val |-> v, err |-> "", log |-> log]
PyRaise(e, log) == [kind |-> "error_already_set", val |-> <<>>, err |-> e, log |-> log]
Throw(msg, log) == [kind |-> "datasource_exception", val |-> msg, err |-> "", log |-> log]
BadOptional(log) == [kind |-> "bad_optional_access", val |-> <<>>, err |-> "", log |-> log]
Construct(it, log) == [kind |-> "construct", val |-> it, err |-> "", log |-> log]

Getattr(name) == <<"getattr", name>>
CallOf(name, arg) == <<"call", name, arg>>

AttrNames == {"data_type", "envelope", "geometry_type", "features", "features_at_point"}

\* The object a handle refers to; None has none of the attributes.
Deref(h) == IF h = ExtHandle THEN ds ELSE [a \in AttrNames |-> Absent]

\* obj.attr(name): a missing attribute raises AttributeError.
Attr(obj, name) == IF name \in DOMAIN obj THEN obj[name] ELSE Absent

\* extract<long>: Python integers only.  extract<double>: any number.
IsLong(v) == v.k = "int"
IsDouble(v) == v.k \in {"int", "float"}
\* extract<feature_ptr>: only wrapped features convert.
IsFeature(v) == v.k = "feature"

\* python_datasource::get_param: the attribute, none when it is None.
get_param(self, key) ==
    LET v == Attr(Deref(self.datasource_), key) IN
    IF v = Absent THEN [k |-> "error_already_set", err |-> "AttributeError"]
    ELSE IF v = PyNone THEN [k |-> "none"]
    ELSE [k |-> "some", v |-> v]

\* python_datasource::has_param: !(get_param(key) == boost::none).
has_param(self, key) ==
    LET p == get_param(self, key) IN
    IF p.k = "error_already_set" THEN p ELSE [k |-> "bool", v |-> p.k # "none"]

\* The guarded scope of python_datasource::type().
TypeBody(self) ==
    LET p == get_param(self, "data_type")
        log == <<Getattr("data_type")>>
    IN  CASE p.k = "error_already_set" -> PyRaise(p.err, log)
          [] p.k = "none" -> BadOptional(log)
          [] OTHER -> IF IsLong(p.v)
                      THEN Return([k |-> "datasource_t", v |-> p.v.v], log)
                      ELSE PyRaise("TypeError", log)

\* box2d<double>'s default constructor.
DefaultBox == [minx |-> 0, miny |-> 0, maxx |-> -1, maxy |-> -1]
EnvelopeFields == <<"minx", "miny", "maxx", "maxy">>

\* A setter that keeps the box ordered, as box2d's four-argument
\* constructor does: a maximum below the stored minimum is exchanged with it.
SetFieldNormalised(box, f, v) ==
    CASE f = "maxx" /\ v < box.minx -> [box EXCEPT !.minx = v, !.maxx = box.minx]
      [] f = "maxy" /\ v < box.miny -> [box EXCEPT !.miny = v, !.maxy = box.miny]
      [] OTHER -> [box EXCEPT ![f] = v]

\* box.set_minx(v), set_miny, set_maxx, set_maxy: the field is stored as given.
SetField(box, f, v) == [box EXCEPT ![f] = v]

\* The four reads of envelope(): attribute, check(), setter, in order; the
\* first failure leaves the scope.
RECURSIVE ReadFields(_, _, _, _)
ReadFields(env, fields, box, log) ==
    IF fields = <<>> THEN Return(box, log)
    ELSE LET f == Head(fields)
             v == Attr(env, f)
             log1 == Append(log, Getattr(f))
         IN  IF v = Absent THEN PyRaise("AttributeError", log1)
             ELSE IF ~IsDouble(v)
                  THEN Throw(<<"Python: could not convert envelope.", f>>, log1)
                  ELSE ReadFields(env, Tail(fields), SetField(box, f, v.v), log1)

\* The guarded scope of python_datasource::envelope().
EnvelopeBody(self) ==
    LET h == has_param(self, "envelope")
        log1 == <<Getattr("envelope")>>
        p == get_param(self, "envelope")
        log2 == Append(log1, Getattr("envelope"))
    IN  CASE h.k = "error_already_set" -> PyRaise(h.err, log1)
          [] h.k = "bool" /\ ~h.v ->
                Throw(<<"Python: could not access envelope property">>, log1)
          [] OTHER ->
                CASE p.k = "error_already_set" -> PyRaise(p.err, log2)
                  [] p.k = "none" -> BadOptional(log2)
                  [] OTHER ->
                        IF p.v = PyNone
                        THEN Throw(<<"Python: envelope property is None">>, log2)
                        ELSE ReadFields(p.v, EnvelopeFields, DefaultBox, log2)

\* The guarded scope of python_datasource::get_geometry_type().
NoHint == [k |-> "none", v |-> 0]
GeometryTypeBody(self) ==
    LET h == has_param(self, "geometry_type")
        log1 == <<Getattr("geometry_type")>>
        p == get_param(self, "geometry_type")
        log2 == Append(log1, Getattr("geometry_type"))
    IN  CASE h.k = "error_already_set" -> PyRaise(h.err, log1)
          [] h.k = "bool" /\ ~h.v -> Return(NoHint, log1)
          [] OTHER ->
                CASE p.k = "error_already_set" -> PyRaise(p.err, log2)
                  [] p.k = "none" -> BadOptional(log2)
                  [] OTHER ->
                        IF p.v = PyNone THEN Return(NoHint, log2)
                        ELSE IF IsLong(p.v)
                             THEN Return([k |-> "datasource_geometry_t", v |-> p.v.v], log2)
                             ELSE PyRaise("TypeError", log2)

\* box2d<T>::intersects.
intersects(box, other) ==
    ~(other.minx > box.maxx \/ other.maxx < box.minx
        \/ other.miny > box.maxy \/ other.maxy < box.miny)

\* An empty featureset_ptr.
EmptyFeatureset == [k |-> "featureset_ptr", v |-> "empty"]
NewFeatureset == [k |-> "featureset_ptr", v |-> "python_featureset"]

\* get_param(name).value()(arg) and the test of its result, as in the
\* guarded scopes of features() and features_at_point().
QueryBody(self, name, arg) ==
    LET p == get_param(self, name)
        log1 == <<Getattr(name)>>
        log2 == Append(log1, CallOf(name, arg))
    IN  CASE p.k = "error_already_set" -> PyRaise(p.err, log1)
          [] p.k = "none" -> BadOptional(log1)
          [] OTHER ->
                IF p.v.k # "callable" THEN PyRaise("TypeError", log2)
                ELSE IF p.v.ret = Raises THEN PyRaise("Exception", log2)
                ELSE IF p.v.ret = PyNone THEN Return(EmptyFeatureset, log2)
                ELSE Construct(p.v.ret, log2)

\* The guarded scopes of features(query) and features_at_point(pt, tol):
\* tol is not passed on.
FeaturesBody(self, q) == QueryBody(self, "features", q)
\* features_at_point(pt, tol) forwarding the tolerance in place of the point.
FeaturesAtPointBodyTolerance(self, pt, tol) == QueryBody(self, "features_at_point", tol)
FeaturesAtPointBody(self, pt, tol) == QueryBody(self, "features_at_point", pt)

(***************************************************************************)
(* boost::python::stl_input_iterator<feature_ptr> over an interpreter      *)
(* iterator: it_ is the interpreter-side iterator (what it has yet to      *)
(* yield), ob_ the element fetched last (NULL at the end).                 *)
(***************************************************************************)
Null == [k |-> "NULL"]
EndIterator == [it_ |-> [rest |-> <<>>, tail |-> "stop"], ob_ |-> Null]

\* PyIter_Next: the next element, NULL at StopIteration, NULL with an
\* error pending when the iterator raises; a raising iterator is finished.
PyIter_Next(it) ==
    IF it.rest # <<>>
    THEN [ob |-> Head(it.rest), raised |-> FALSE, it |-> [it EXCEPT !.rest = Tail(@)]]
    ELSE [ob |-> Null, raised |-> it.tail = "raise", it |-> [it EXCEPT !.tail = "stop"]]

\* stl_input_iterator_impl::increment.
Increment(impl) ==
    LET r == PyIter_Next(impl.it_) IN
    [impl |-> [it_ |-> r.it, ob_ |-> r.ob], raised |-> r.raised]

\* begin_ == end_: both at the end, or neither.
IteratorEqual(a, b) == (a.ob_ = Null) <=> (b.ob_ = Null)

\* A constructor that obtains the iterator and fetches nothing.
FeaturesetCtorBodyLazy(iterable) ==
    IF iterable.k # "iterable"
    THEN [o |-> PyRaise("AttributeError", <<Getattr("__iter__")>>), begin |-> EndIterator]
    ELSE [o |-> Return(NewFeatureset, <<Getattr("__iter__"), <<"call", "__iter__">>>>),
          begin |-> [it_ |-> [rest |-> iterable.items, tail |-> iterable.tail],
                     ob_ |-> PyNone]]

\* python_featureset's constructor body: obj.__iter__(), then the
\* iterator's constructor fetches the first element.
FeaturesetCtorBody(iterable) ==
    IF iterable.k # "iterable"
    THEN [o |-> PyRaise("AttributeError", <<Getattr("__iter__")>>), begin |-> EndIterator]
    ELSE LET inc == Increment([it_ |-> [rest |-> iterable.items, tail |-> iterable.tail],
                               ob_ |-> Null])
             log == <<Getattr("__iter__"), <<"call", "__iter__">>, <<"PyIter_Next">>>>
         IN  IF inc.raised
             THEN [o |-> PyRaise("Exception", log), begin |-> inc.impl]
             ELSE [o |-> Return(NewFeatureset, log), begin |-> inc.impl]

\* As NextBody, had next() been written *(++begin_).
NextBodyPreIncrement(begin) ==
    LET inc == Increment(begin)
        log == <<<<"PyIter_Next">>, <<"extract">>>>
    IN  IF inc.raised
        THEN [o |-> PyRaise("Exception", <<<<"PyIter_Next">>>>), begin |-> inc.impl]
        ELSE IF ~IsFeature(inc.impl.ob_)
             THEN [o |-> PyRaise("TypeError", log), begin |-> inc.impl]
             ELSE [o |-> Return(inc.impl.ob_, log), begin |-> inc.impl]

\* *(begin_++): the postfix proxy converts the current element first,
\* then the iterator is incremented, then the stored record is returned.
NextBody(begin) ==
    IF ~IsFeature(begin.ob_)
    THEN [o |-> PyRaise("TypeError", <<<<"extract">>>>), begin |-> begin]
    ELSE LET inc == Increment(begin)
             log == <<<<"extract">>, <<"PyIter_Next">>>>
         IN  IF inc.raised
             THEN [o |-> PyRaise("Exception", log), begin |-> inc.impl]
             ELSE [o |-> Return(begin.ob_, log), begin |-> inc.impl]

\* The featureset of a thread: its cursor pair and the iterable it wraps,
\* with what its host has seen of it: the records returned (out), a
\* terminal result (ended), a failed next() that left the cursor on its
\* element (failed) and a later next() failing on that element again
\* (retried).
NoFeatureset ==
    [alive |-> FALSE, begin_ |-> EndIterator, end_ |-> EndIterator,
     src |-> PyNone, out |-> <<>>, ended |-> FALSE, failed |-> FALSE,
     retried |-> FALSE]

\* feature_ptr(): the terminal result of next().
NoFeature == [k |-> "feature_ptr", v |-> 0]

(***************************************************************************)
(* extractException(): PyErr_Fetch and traceback.format_exception.  It     *)
(* runs in the catch clause, after the guarded scope has been left; when   *)
(* the thread does not hold the lock there, the interpreter is used        *)
(* without it and the result is undefined.                                 *)
(***************************************************************************)
FormatException(err) == <<"Traceback (most recent call last):", err>>

extractException(held, err) ==
    IF held
    THEN {[kind |-> "DatasourceError", val |-> FormatException(err)]}
    ELSE {[kind |-> "DatasourceError", val |-> FormatException(err)],
          [kind |-> "undefined", val |-> <<>>]}

\* python_datasource's constructor.
python_datasource(h) ==
    [datasource_ |-> h, desc_ |-> [name |-> "python", encoding |-> "utf-8"]]

(***************************************************************************)
(* Inputs: external objects, queries, points.                              *)
(***************************************************************************)
Box(a, b, c, d) == [minx |-> a, miny |-> b, maxx |-> c, maxy |-> d]
Queries == {Box(1, 1, 3, 3), Box(5, 5, 6, 6)}
Points == {[x |-> 1, y |-> 1]}
Tolerances == {[tol |-> 7]}
NoArg == [k |-> "noarg"]

IntAttrs == {Absent, PyNone, PyInt(1), PyStr}
FieldVals == {PyFloat(0), PyFloat(2), PyStr, Absent}
\* The bounds {-10, -5, 10, 5}, given as integers.
ExampleEnvelope == PyEnvelope(PyInt(-10), PyInt(-5), PyInt(10), PyInt(5))
Envelopes ==
    {Absent, PyNone, ExampleEnvelope}
        \cup {PyEnvelope(a, b, c, d) : a \in FieldVals, b \in FieldVals,
                                       c \in FieldVals, d \in FieldVals}

\* Element i of an iterable is feature i or a value that is no feature.
ItemSeqs ==
    UNION {{s \in [1..n -> {PyStr} \cup {PyFeature(i) : i \in 1..n}] :
                \A i \in 1..n : s[i] \in {PyStr, PyFeature(i)}} : n \in 0..MaxLen}
Iterables == {PyIterable(s, tail) : s \in ItemSeqs, tail \in {"stop", "raise"}}
Callables ==
    {Absent, PyNone, PyStr, PyCallable(Raises), PyCallable(PyNone), PyCallable(PyStr)}
        \cup {PyCallable(it) : it \in Iterables}

Features1(tail) == PyCallable(PyIterable(<<PyFeature(1)>>, tail))

\* A well-formed external datasource.
GoodDs ==
    [data_type |-> PyInt(1),
     envelope |-> PyEnvelope(PyFloat(0), PyFloat(0), PyFloat(2), PyFloat(2)),
     geometry_type |-> PyInt(1),
     features |-> Features1("stop"),
     features_at_point |-> Features1("stop")]

\* External objects of the sequential runs: each attribute ranges over all
\* its values while the others are those of GoodDs.
DsCases ==
    {[GoodDs EXCEPT !.data_type = v] : v \in IntAttrs}
        \cup {[GoodDs EXCEPT !.geometry_type = v] : v \in IntAttrs}
        \cup {[GoodDs EXCEPT !.envelope = v] : v \in Envelopes}
        \cup {[GoodDs EXCEPT !.features = v] : v \in Callables}
        \cup {[GoodDs EXCEPT !.features_at_point = v] : v \in Callables}

\* External objects of the concurrent runs.
DsSmall ==
    {GoodDs,
     [a \in AttrNames |-> Absent],
     [a \in AttrNames |-> PyNone],
     [GoodDs EXCEPT !.features = Features1("raise"),
                    !.features_at_point = PyCallable(PyIterable(<<PyStr>>, "stop")),
                    !.geometry_type = PyStr],
     [GoodDs EXCEPT !.features = PyCallable(PyIterable(<<>>, "raise")),
                    !.features_at_point = PyCallable(PyStr),
                    !.data_type = PyStr]}

\* External objects of the runs under fairness: one whose every operation
\* fails at its first attribute, and one with a wrong data_type, a features
\* iterator that raises after its element and a features_at_point result
\* that is no iterable.
DsFair ==
    {[a \in AttrNames |-> Absent],
     [GoodDs EXCEPT !.data_type = PyStr,
                    !.features = Features1("raise"),
                    !.features_at_point = PyCallable(PyStr)]}

IdleFrame ==
    [op |-> "none", arg |-> NoArg, d0 |-> 0, acq |-> 0, sections |-> 0, log |-> <<>>,
     box |-> DefaultBox, it |-> PyNone]
\* A finished call as the host sees it (op, arg, kind, val), with what the
\* call did: its interpreter accesses (log), its lock acquisitions (acq),
\* the critical sections it entered (sections) and the change of the
\* thread's hold depth from entry to exit (delta); for a call that took no
\* lock, who held the interpreter lock as it returned (holder).
NoResult ==
    [op |-> "none", arg |-> NoArg, kind |-> "none", val |-> <<>>, log |-> <<>>,
     acq |-> 0, sections |-> 0, delta |-> 0, holder |-> NoThread]

InitWith(T, D) ==
    /\ threads = T
    /\ ds \in D
    /\ adapter = python_datasource(ExtHandle)
    /\ gil = [holder |-> NoThread, depth |-> [t \in AllThreads |-> 0]]
    /\ pc = [t \in AllThreads |-> "idle"]
    /\ frame = [t \in AllThreads |-> IdleFrame]
    /\ pyerr = [t \in AllThreads |-> ""]
    /\ res = [t \in AllThreads |-> NoResult]
    /\ fs = [t \in AllThreads |-> NoFeatureset]
    /\ hadFailure = FALSE

Init == InitWith(AllThreads, DsSmall)
InitSeq == InitWith({"t1"}, DsCases)
InitFair == InitWith(AllThreads, DsFair)

(***************************************************************************)
(* Steps shared by the operations.                                         *)
(***************************************************************************)
\* As ScopeExit, had the lock been released by hand before each return
\* only: an exception leaves it held.
ScopeExitLeak(g, t, kind) ==
    IF kind = "return" THEN PyGILState_Release(g, t) ELSE g

\* ~ensure_gil: the guard's scope is left, by return or by an exception.
ScopeExit(g, t, kind) == PyGILState_Release(g, t)

\* As AfterCall, had a failed call dropped the external handle.
AfterCallPoison(self, kind) ==
    IF kind = "return" THEN self ELSE [self EXCEPT !.datasource_ = NoneHandle]

\* A const method leaves the adapter's fields as they are.
AfterCall(self, kind) == self

\* How an exception type reaches the host.
HostKind(kind) ==
    IF kind = "datasource_exception" THEN "DatasourceError" ELSE kind

\* The host calls an operation.
Call(t, op, arg, first) ==
    /\ pc[t] = "idle"
    /\ pc' = [pc EXCEPT ![t] = first]
    /\ t \in threads
    /\ frame' = [frame EXCEPT ![t] =
            [IdleFrame EXCEPT !.op = op, !.arg = arg, !.d0 = gil.depth[t]]]
    /\ res' = [res EXCEPT ![t] = NoResult]
    /\ UNCHANGED <<threads, ds, adapter, gil, pyerr, fs, hadFailure>>

\* ensure_gil lock; blocks until the interpreter lock can be taken.
Ensure(t, from, to) ==
    /\ pc[t] = from
    /\ CanEnsure(gil, t)
    /\ gil' = PyGILState_Ensure(gil, t)
    /\ pc' = [pc EXCEPT ![t] = to]
    /\ frame' = [frame EXCEPT ![t].acq = @ + 1,
                              ![t].sections = IF Holds(t) THEN @ ELSE @ + 1]
    /\ UNCHANGED <<threads, ds, adapter, pyerr, res, fs, hadFailure>>

\* The operation ends: its outcome reaches the host.  log is what its last
\* step accessed, g the interpreter lock as that step leaves it.
Finish(t, kind, val, log, g) ==
    /\ pc' = [pc EXCEPT ![t] = "idle"]
    /\ res' = [res EXCEPT ![t] =
            [op |-> frame[t].op, arg |-> frame[t].arg, kind |-> kind, val |-> val,
             log |-> frame[t].log \o log, acq |-> frame[t].acq,
             sections |-> frame[t].sections, delta |-> g.depth[t] - frame[t].d0,
             holder |-> NoThread]]
    /\ frame' = [frame EXCEPT ![t] = IdleFrame]
    /\ hadFailure' = (hadFailure \/ kind # "return")
    /\ adapter' = AfterCall(adapter, kind)

\* The guarded scope ends with outcome o: the lock guard is destroyed,
\* then error_already_set goes to the catch clause and anything else
\* leaves the operation.
Leave(t, o, catch) ==
    /\ gil' = ScopeExit(gil, t, o.kind)
    /\ IF o.kind = "error_already_set"
       THEN /\ pyerr' = [pyerr EXCEPT ![t] = o.err]
            /\ pc' = [pc EXCEPT ![t] = catch]
            /\ frame' = [frame EXCEPT ![t].log = @ \o o.log]
            /\ UNCHANGED <<res, hadFailure, adapter>>
       ELSE /\ Finish(t, HostKind(o.kind), o.val, o.log, ScopeExit(gil, t, o.kind))
            /\ UNCHANGED pyerr
    /\ UNCHANGED <<threads, ds, fs>>

\* catch (error_already_set) { throw datasource_exception(extractException()); }
Catch(t, at) ==
    /\ pc[t] = at
    /\ \E r \in extractException(Holds(t), pyerr[t]) :
            Finish(t, r.kind, r.val, <<<<"extractException">>>>, gil)
    /\ pyerr' = [pyerr EXCEPT ![t] = ""]
    /\ UNCHANGED <<threads, ds, gil, fs>>

(***************************************************************************)
(* python_datasource::type()                                               *)
(***************************************************************************)
type_call(t) == Call(t, "type", NoArg, "type_ensure")
type_ensure(t) == Ensure(t, "type_ensure", "type_body")
type_body(t) == pc[t] = "type_body" /\ Leave(t, TypeBody(adapter), "type_catch")
type_catch(t) == Catch(t, "type_catch")

(***************************************************************************)
(* python_datasource::get_geometry_type()                                  *)
(***************************************************************************)
get_geometry_type_call(t) == Call(t, "get_geometry_type", NoArg, "geometry_ensure")
get_geometry_type_ensure(t) == Ensure(t, "geometry_ensure", "geometry_body")
get_geometry_type_body(t) ==
    pc[t] = "geometry_body" /\ Leave(t, GeometryTypeBody(adapter), "geometry_catch")
get_geometry_type_catch(t) == Catch(t, "geometry_catch")

(***************************************************************************)
(* python_datasource::envelope(), called by the host or by features()      *)
(***************************************************************************)
envelope_call(t) == Call(t, "envelope", NoArg, "envelope_ensure")
envelope_ensure(t) == Ensure(t, "envelope_ensure", "envelope_body")
envelope_body(t) ==
    /\ pc[t] = "envelope_body"
    /\ LET o == EnvelopeBody(adapter) IN
       IF frame[t].op = "features" /\ o.kind = "return"
       THEN \* back in features(), which tests the box
            /\ gil' = ScopeExit(gil, t, o.kind)
            /\ frame' = [frame EXCEPT ![t].log = @ \o o.log, ![t].box = o.val]
            /\ pc' = [pc EXCEPT ![t] = "features_test"]
            /\ UNCHANGED <<threads, ds, adapter, pyerr, res, fs, hadFailure>>
       ELSE Leave(t, o, "envelope_catch")
envelope_catch(t) == Catch(t, "envelope_catch")

(***************************************************************************)
(* python_datasource::features(q)                                          *)
(***************************************************************************)
features_call(t) ==
    /\ ~fs[t].alive
    /\ \E q \in Queries : Call(t, "features", q, "envelope_ensure")

\* As features_test, without the test of the query's box.
features_test_unconditional(t) ==
    /\ pc[t] = "features_test"
    /\ pc' = [pc EXCEPT ![t] = "features_ensure"]
    /\ UNCHANGED <<threads, ds, adapter, gil, frame, pyerr, res, fs, hadFailure>>

\* if (envelope().intersects(q.get_bbox())) ... else return featureset_ptr()
features_test(t) ==
    /\ pc[t] = "features_test"
    /\ IF intersects(frame[t].box, frame[t].arg)
       THEN /\ pc' = [pc EXCEPT ![t] = "features_ensure"]
            /\ UNCHANGED <<res, hadFailure, adapter, frame>>
       ELSE Finish(t, "return", EmptyFeatureset, <<>>, gil)
    /\ UNCHANGED <<threads, ds, gil, pyerr, fs>>

features_ensure(t) == Ensure(t, "features_ensure", "features_body")

\* The guarded scope of a query: a result to wrap goes on to the
\* featureset's constructor with the lock still held.
QueryStep(t, o, ctor, catch) ==
    IF o.kind = "construct"
    THEN /\ pc' = [pc EXCEPT ![t] = ctor]
         /\ frame' = [frame EXCEPT ![t].log = @ \o o.log, ![t].it = o.val]
         /\ UNCHANGED <<threads, ds, adapter, gil, pyerr, res, fs, hadFailure>>
    ELSE Leave(t, o, catch)

features_body(t) ==
    /\ pc[t] = "features_body"
    /\ QueryStep(t, FeaturesBody(adapter, frame[t].arg), "ctor_ensure", "features_catch")

\* return std::make_shared<python_featureset>(features): the scope is left.
QueryReturn(t, at) ==
    /\ pc[t] = at
    /\ gil' = ScopeExit(gil, t, "return")
    /\ Finish(t, "return", NewFeatureset, <<>>, ScopeExit(gil, t, "return"))
    /\ UNCHANGED <<threads, ds, pyerr, fs>>

\* The constructor threw: the scope is left on the way to the catch clause.
QueryUnwind(t, at, catch) ==
    /\ pc[t] = at
    /\ gil' = ScopeExit(gil, t, "error_already_set")
    /\ pc' = [pc EXCEPT ![t] = catch]
    /\ UNCHANGED <<threads, ds, adapter, frame, pyerr, res, fs, hadFailure>>

features_return(t) == QueryReturn(t, "features_return")
features_unwind(t) == QueryUnwind(t, "features_unwind", "features_catch")
features_catch(t) == Catch(t, "features_catch")

(***************************************************************************)
(* python_datasource::features_at_point(pt, tol)                           *)
(***************************************************************************)
features_at_point_call(t) ==
    /\ ~fs[t].alive
    /\ \E pt \in Points, tol \in Tolerances :
            Call(t, "features_at_point", [pt |-> pt, tol |-> tol], "fap_ensure")
features_at_point_ensure(t) == Ensure(t, "fap_ensure", "fap_body")
features_at_point_body(t) ==
    /\ pc[t] = "fap_body"
    /\ QueryStep(t, FeaturesAtPointBody(adapter, frame[t].arg.pt, frame[t].arg.tol),
                 "ctor_ensure", "fap_catch")
features_at_point_return(t) == QueryReturn(t, "fap_return")
features_at_point_unwind(t) == QueryUnwind(t, "fap_unwind", "fap_catch")
features_at_point_catch(t) == Catch(t, "fap_catch")

(***************************************************************************)
(* python_featureset: constructor, next(), destructor                      *)
(***************************************************************************)
ctor_ensure(t) == Ensure(t, "ctor_ensure", "ctor_body")

ctor_body(t) ==
    /\ pc[t] = "ctor_body"
    /\ LET c == FeaturesetCtorBody(frame[t].it)
           fap == frame[t].op = "features_at_point"
       IN  /\ gil' = ScopeExit(gil, t, c.o.kind)
           /\ frame' = [frame EXCEPT ![t].log = @ \o c.o.log]
           /\ IF c.o.kind = "return"
              THEN /\ fs' = [fs EXCEPT ![t] =
                            [NoFeatureset EXCEPT !.alive = TRUE, !.begin_ = c.begin,
                                                 !.src = frame[t].it]]
                   /\ pc' = [pc EXCEPT ![t] = IF fap THEN "fap_return" ELSE "features_return"]
                   /\ UNCHANGED pyerr
              ELSE /\ pyerr' = [pyerr EXCEPT ![t] = c.o.err]
                   /\ pc' = [pc EXCEPT ![t] = IF fap THEN "fap_unwind" ELSE "features_unwind"]
                   /\ UNCHANGED fs
    /\ UNCHANGED <<threads, ds, adapter, res, hadFailure>>

\* next() taking the lock before it looks at the cursor.
next_call_locked(t) ==
    /\ pc[t] = "idle"
    /\ t \in threads
    /\ fs[t].alive
    /\ pc' = [pc EXCEPT ![t] = "next_ensure"]
    /\ frame' = [frame EXCEPT ![t] = [IdleFrame EXCEPT !.op = "next", !.d0 = gil.depth[t]]]
    /\ res' = [res EXCEPT ![t] = NoResult]
    /\ UNCHANGED <<threads, ds, adapter, gil, pyerr, fs, hadFailure>>

\* next(): at the end the terminal result is returned at once.
next_call(t) ==
    /\ pc[t] = "idle"
    /\ t \in threads
    /\ fs[t].alive
    /\ IF IteratorEqual(fs[t].begin_, fs[t].end_)
       THEN /\ res' = [res EXCEPT ![t] = [NoResult EXCEPT !.op = "next", !.kind = "return",
                                                         !.val = NoFeature,
                                                         !.holder = gil.holder]]
            /\ fs' = [fs EXCEPT ![t].ended = TRUE]
            /\ UNCHANGED <<pc, frame>>
       ELSE /\ pc' = [pc EXCEPT ![t] = "next_ensure"]
            /\ frame' = [frame EXCEPT ![t] =
                    [IdleFrame EXCEPT !.op = "next", !.d0 = gil.depth[t]]]
            /\ res' = [res EXCEPT ![t] = NoResult]
            /\ UNCHANGED fs
    /\ UNCHANGED <<threads, ds, adapter, gil, pyerr, hadFailure>>

next_ensure(t) == Ensure(t, "next_ensure", "next_body")

\* return *(begin_++); nothing catches what the interpreter raises here.
next_body(t) ==
    /\ pc[t] = "next_body"
    /\ LET n == NextBody(fs[t].begin_) IN
        /\ gil' = ScopeExit(gil, t, n.o.kind)
        /\ Finish(t, n.o.kind, n.o.val, n.o.log, ScopeExit(gil, t, n.o.kind))
        /\ IF n.o.kind = "return"
           THEN /\ fs' = [fs EXCEPT ![t].begin_ = n.begin, ![t].out = Append(@, n.o.val),
                                     ![t].failed = FALSE]
                /\ UNCHANGED pyerr
           ELSE /\ fs' = [fs EXCEPT ![t].begin_ = n.begin,
                                     ![t].failed = (n.begin = fs[t].begin_),
                                     ![t].retried = @ \/ (fs[t].failed
                                                            /\ n.begin = fs[t].begin_)]
                /\ pyerr' = [pyerr EXCEPT ![t] = n.o.err]
    /\ UNCHANGED <<threads, ds>>

dtor_call(t) == fs[t].alive /\ Call(t, "~python_featureset", NoArg, "dtor_ensure")
dtor_ensure(t) == Ensure(t, "dtor_ensure", "dtor_body")
\* begin_ = end_ under the lock: the interpreter's iterator and the element
\* held are released; then the guard's scope is left.
dtor_body(t) ==
    /\ pc[t] = "dtor_body"
    /\ gil' = ScopeExit(gil, t, "return")
    /\ fs' = [fs EXCEPT ![t].begin_ = fs[t].end_]
    /\ pc' = [pc EXCEPT ![t] = "dtor_members"]
    /\ frame' = [frame EXCEPT ![t].log = Append(@, <<"release", "iterator">>)]
    /\ UNCHANGED <<threads, ds, adapter, pyerr, res, hadFailure>>
\* After the body the members begin_ and end_ are destroyed: each gives up
\* its reference to None.
dtor_members(t) ==
    /\ pc[t] = "dtor_members"
    /\ fs' = [fs EXCEPT ![t] = NoFeatureset]
    /\ Finish(t, "return", <<>>, <<<<"release", "None">>>>, gil)
    /\ UNCHANGED <<threads, ds, gil, pyerr>>

(***************************************************************************)
(* The host: a thread may already hold the interpreter lock when it calls  *)
(* in (it runs interpreter code), or not (it released the lock).           *)
(***************************************************************************)
HostAcquire(t) ==
    /\ pc[t] = "idle"
    /\ t \in threads
    /\ gil.depth[t] = 0
    /\ CanEnsure(gil, t)
    /\ gil' = PyGILState_Ensure(gil, t)
    /\ UNCHANGED <<threads, ds, adapter, pc, frame, pyerr, res, fs, hadFailure>>

HostRelease(t) ==
    /\ pc[t] = "idle"
    /\ gil.depth[t] = 1
    /\ gil' = PyGILState_Release(gil, t)
    /\ UNCHANGED <<threads, ds, adapter, pc, frame, pyerr, res, fs, hadFailure>>

Next ==
    \E t \in AllThreads :
        \/ type_call(t) \/ type_ensure(t) \/ type_body(t) \/ type_catch(t)
        \/ get_geometry_type_call(t) \/ get_geometry_type_ensure(t)
        \/ get_geometry_type_body(t) \/ get_geometry_type_catch(t)
        \/ envelope_call(t) \/ envelope_ensure(t) \/ envelope_body(t) \/ envelope_catch(t)
        \/ features_call(t) \/ features_test(t) \/ features_ensure(t) \/ features_body(t)
        \/ features_return(t) \/ features_unwind(t) \/ features_catch(t)
        \/ features_at_point_call(t) \/ features_at_point_ensure(t)
        \/ features_at_point_body(t) \/ features_at_point_return(t)
        \/ features_at_point_unwind(t) \/ features_at_point_catch(t)
        \/ ctor_ensure(t) \/ ctor_body(t)
        \/ next_call(t) \/ next_ensure(t) \/ next_body(t)
        \/ dtor_call(t) \/ dtor_ensure(t) \/ dtor_body(t) \/ dtor_members(t)
        \/ HostAcquire(t) \/ HostRelease(t)

\* Concurrent host threads over a few external objects.
Spec == Init /\ [][Next]_vars
\* One host thread over every external object of DsCases.
SpecSeq == InitSeq /\ [][Next]_vars

\* The lock acquisitions of thread t.
EnsureStep(t) ==
    \/ type_ensure(t) \/ get_geometry_type_ensure(t) \/ envelope_ensure(t)
    \/ features_ensure(t) \/ features_at_point_ensure(t)
    \/ ctor_ensure(t) \/ next_ensure(t) \/ dtor_ensure(t)
\* The steps of thread t inside an operation that wait for nothing.
BodyStep(t) ==
    \/ type_body(t) \/ type_catch(t)
    \/ get_geometry_type_body(t) \/ get_geometry_type_catch(t)
    \/ envelope_body(t) \/ envelope_catch(t)
    \/ features_test(t) \/ features_body(t)
    \/ features_return(t) \/ features_unwind(t) \/ features_catch(t)
    \/ features_at_point_body(t) \/ features_at_point_return(t)
    \/ features_at_point_unwind(t) \/ features_at_point_catch(t)
    \/ ctor_body(t) \/ next_body(t) \/ dtor_body(t) \/ dtor_members(t)
\* A thread inside an operation keeps running and every interpreter call
\* ends (weak fairness of its steps); the lock is fair: a thread waiting for
\* it gets it if it is free again and again, and a host thread holding it
\* between calls gives it up (strong fairness).
Fairness ==
    \A t \in AllThreads :
        /\ WF_vars(BodyStep(t))
        /\ SF_vars(EnsureStep(t))
        /\ SF_vars(HostRelease(t))
\* The concurrent runs under fair scheduling and a fair lock.
SpecFair == InitFair /\ [][Next]_vars /\ Fairness

(***************************************************************************)
(* Properties.                                                             *)
(***************************************************************************)
Range(s) == {s[i] : i \in DOMAIN s}
IsPrefix(a, b) == Len(a) <= Len(b) /\ \A i \in 1..Len(a) : a[i] = b[i]
Done(t) == pc[t] = "idle" /\ res[t].kind # "none"

\* The featureset wraps an iterable whose elements all convert and whose
\* iterator never raises.
CleanIterable(f) ==
    /\ f.alive
    /\ f.src.k = "iterable"
    /\ f.src.tail = "stop"
    /\ \A i \in DOMAIN f.src.items : IsFeature(f.src.items[i])

\* C1: over an iterable of N convertible values that never raises, next()
\* returns the N values in iteration order (the k-th returning call gives
\* element k), never fails, returns the terminal result only after all N,
\* and after a terminal result never returns a record again.
C1_NextYieldsAllThenEnds ==
    \A t \in AllThreads :
        CleanIterable(fs[t]) =>
            /\ IsPrefix(fs[t].out, fs[t].src.items)
            /\ fs[t].ended => (fs[t].out = fs[t].src.items
                                /\ IteratorEqual(fs[t].begin_, fs[t].end_))
            /\ (Done(t) /\ res[t].op = "next") =>
                    /\ res[t].kind = "return"
                    /\ IF fs[t].ended
                       THEN res[t].val = NoFeature
                       ELSE /\ fs[t].out # <<>>
                            /\ res[t].val = fs[t].src.items[Len(fs[t].out)]

C1_Witness ==
    \E t \in AllThreads :
        /\ CleanIterable(fs[t])
        /\ Len(fs[t].src.items) >= 2
        /\ fs[t].ended
        /\ fs[t].out = fs[t].src.items
        /\ Done(t) /\ res[t].op = "next" /\ res[t].val = NoFeature

\* Positions at which the thread is using interpreter state: the guarded
\* scopes and the catch clauses that call extractException().
AccessPcs ==
    {"type_body", "type_catch", "geometry_body", "geometry_catch",
     "envelope_body", "envelope_catch", "features_body", "features_catch",
     "fap_body", "fap_catch", "ctor_body", "next_body", "dtor_body", "dtor_members"}

\* C2: a thread that is accessing interpreter state holds the interpreter
\* lock, on success and on error paths, so no two threads access it at once.
C2_AccessUnderLock ==
    /\ \A t \in AllThreads : pc[t] \in AccessPcs => Holds(t)
    /\ \A t1, t2 \in AllThreads :
            (t1 # t2 /\ pc[t1] \in AccessPcs) => pc[t2] \notin AccessPcs

\* C3: when the interpreter raises during a host-facing operation, the
\* operation fails with DatasourceError; the interpreter's own exception
\* (error_already_set) never reaches the host.  Stated by its last clause,
\* which the first implies: no finished call ends with error_already_set.
C3_NoNativeException ==
    \A t \in AllThreads : Done(t) => res[t].kind # "error_already_set"

\* The external envelope has four numeric fields; its box.
EnvNumeric ==
    /\ ds.envelope.k = "object"
    /\ \A i \in DOMAIN EnvelopeFields : IsDouble(ds.envelope[EnvelopeFields[i]])
DsBox ==
    Box(ds.envelope.minx.v, ds.envelope.miny.v, ds.envelope.maxx.v, ds.envelope.maxy.v)
\* Two boxes share a point, taking each box's bounds as stored.
Overlaps(a, b) ==
    /\ b.minx <= a.maxx /\ a.minx <= b.maxx
    /\ b.miny <= a.maxy /\ a.miny <= b.maxy

\* C4: an operation whose required attribute is present but None fails
\* with DatasourceError and with nothing else.
C4_NullIsDatasourceError ==
    \A t \in AllThreads :
        Done(t) =>
            /\ (res[t].op = "type" /\ ds.data_type = PyNone)
                    => res[t].kind = "DatasourceError"
            /\ (res[t].op = "envelope" /\ ds.envelope = PyNone)
                    => res[t].kind = "DatasourceError"
            /\ (res[t].op = "features" /\ ds.features = PyNone
                    /\ EnvNumeric /\ Overlaps(DsBox, res[t].arg))
                    => res[t].kind = "DatasourceError"
            /\ (res[t].op = "features_at_point" /\ ds.features_at_point = PyNone)
                    => res[t].kind = "DatasourceError"

\* C5: get_geometry_type() returns "no hint" without failing when the
\* attribute is missing and when it is None, and the integer's hint exactly
\* when the attribute is an integer.
C5_GeometryTypeHint ==
    \A t \in AllThreads :
        (Done(t) /\ res[t].op = "get_geometry_type") =>
            /\ ds.geometry_type \in {Absent, PyNone}
                    => (res[t].kind = "return" /\ res[t].val = NoHint)
            /\ IsLong(ds.geometry_type)
                    => (res[t].kind = "return"
                        /\ res[t].val = [k |-> "datasource_geometry_t",
                                         v |-> ds.geometry_type.v])
            /\ (res[t].kind = "return" /\ res[t].val # NoHint)
                    => IsLong(ds.geometry_type)

IsCall(e, name) == e[1] = "call" /\ e[2] = name

\* C6: features(q) with a box that does not intersect the envelope returns
\* the empty featureset and never invokes the external "features" callable.
C6_NoQueryOutsideEnvelope ==
    /\ \A t \in AllThreads :
        (EnvNumeric /\ frame[t].op = "features" /\ ~Overlaps(DsBox, frame[t].arg)) =>
                /\ \A e \in Range(frame[t].log) : ~IsCall(e, "features")
                /\ pc[t] \notin {"features_ensure", "features_body", "ctor_ensure",
                                 "ctor_body", "features_return", "features_unwind",
                                 "features_catch"}
    /\ \A t \in AllThreads :
        (EnvNumeric /\ Done(t) /\ res[t].op = "features"
                /\ ~Overlaps(DsBox, res[t].arg)) =>
                /\ res[t].kind = "return"
                /\ res[t].val = EmptyFeatureset
                /\ \A e \in Range(res[t].log) : ~IsCall(e, "features")
                /\ ~fs[t].alive

C6_Witness ==
    \E t \in AllThreads :
        /\ EnvNumeric /\ Done(t) /\ res[t].op = "features"
        /\ ~Overlaps(DsBox, res[t].arg)
        /\ res[t].val = EmptyFeatureset
        /\ ds.features.k = "callable"

\* The reads of envelope sub-attributes in a log, in order.
FieldReads(log) ==
    LET IsFieldRead(e) == e[1] = "getattr" /\ e[2] \in Range(EnvelopeFields)
        reads == SelectSeq(log, IsFieldRead)
    IN  [i \in DOMAIN reads |-> reads[i][2]]
\* Positions of the envelope's sub-attributes that are not numbers.
BadFields == {i \in DOMAIN EnvelopeFields : ~IsDouble(Attr(ds.envelope, EnvelopeFields[i]))}
FirstBad == CHOOSE i \in BadFields : \A j \in BadFields : i <= j

\* C7: envelope() without an envelope attribute fails with DatasourceError
\* and reads no sub-attribute; otherwise it reads minx, miny, maxx, maxy in
\* that order and at the first one that is not numeric fails with a
\* DatasourceError naming that field, reading no later field.
C7_EnvelopeFailFast ==
    \A t \in AllThreads :
        (Done(t) /\ res[t].op = "envelope") =>
            /\ ds.envelope = Absent =>
                    (res[t].kind = "DatasourceError" /\ FieldReads(res[t].log) = <<>>)
            /\ (ds.envelope.k = "object" /\ BadFields # {}) =>
                    /\ res[t].kind = "DatasourceError"
                    /\ FieldReads(res[t].log) = SubSeq(EnvelopeFields, 1, FirstBad)
                    /\ ds.envelope[EnvelopeFields[FirstBad]] # Absent =>
                            res[t].val = <<"Python: could not convert envelope.",
                                           EnvelopeFields[FirstBad]>>

\* C8: every operation leaves the calling thread's hold depth on the
\* interpreter lock as it found it, however it ends: a finished host call
\* (delta), envelope() inside features(), and the featureset's constructor
\* (which runs inside its caller's guard, one level above the call's entry).
C8_LockDepthRestored ==
    \A t \in AllThreads :
        /\ Done(t) => res[t].delta = 0
        /\ pc[t] \in {"features_test", "type_catch", "geometry_catch", "envelope_catch",
                      "features_catch", "fap_catch", "dtor_members"}
                => gil.depth[t] = frame[t].d0
        /\ pc[t] \in {"features_return", "features_unwind", "fap_return", "fap_unwind"}
                => gil.depth[t] = frame[t].d0 + 1

C8_Witness ==
    \E t \in AllThreads :
        /\ Done(t)
        /\ res[t].kind \in {"DatasourceError", "bad_optional_access", "error_already_set"}
        /\ res[t].acq >= 1
        /\ gil.depth[t] = 1

\* C9: a host call enters one critical section: it takes the interpreter
\* lock once and gives it up once, so that all its interpreter accesses
\* are made without the lock being free in between.
C9_OneCriticalSection ==
    \A t \in AllThreads : Done(t) => res[t].sections <= 1

\* The ways a body outcome can reach the host.
HostKinds(o) ==
    IF o.kind = "error_already_set" THEN {"DatasourceError", "undefined"}
    ELSE {HostKind(o.kind)}
QueryKinds(o) ==
    IF o.kind = "construct" THEN HostKinds(FeaturesetCtorBody(o.val).o) ELSE HostKinds(o)
\* What a call of op can give on a newly constructed adapter.
FreshKinds(op, arg) ==
    LET fresh == python_datasource(ExtHandle)
        e == EnvelopeBody(fresh)
    IN  CASE op = "type" -> HostKinds(TypeBody(fresh))
          [] op = "envelope" -> HostKinds(e)
          [] op = "get_geometry_type" -> HostKinds(GeometryTypeBody(fresh))
          [] op = "features" ->
                IF e.kind # "return" THEN HostKinds(e)
                ELSE IF ~intersects(e.val, arg) THEN {"return"}
                ELSE QueryKinds(FeaturesBody(fresh, arg))
          [] op = "features_at_point" ->
                QueryKinds(FeaturesAtPointBody(fresh, arg.pt, arg.tol))
          [] OTHER -> {"return", "error_already_set"}

\* C10: failures poison nothing: the adapter's handle and descriptor stay
\* those of a newly constructed adapter, and every call ends as it can end
\* on a newly constructed adapter over the same external object.
C10_NoPoisonedState ==
    /\ adapter = python_datasource(ExtHandle)
    /\ \A t \in AllThreads : Done(t) => res[t].kind \in FreshKinds(res[t].op, res[t].arg)

C10_Witness ==
    /\ hadFailure
    /\ \E t \in AllThreads :
            /\ Done(t)
            /\ res[t].op \in {"type", "envelope", "features"}
            /\ res[t].kind = "return"

\* C11: envelope() over an external envelope with four numeric fields
\* returns the box whose minx, miny, maxx, maxy are the external values
\* position by position, exchanged or reordered in no case, also when
\* minx > maxx or miny > maxy.
C11_EnvelopeExactBounds ==
    \A t \in AllThreads :
        (Done(t) /\ res[t].op = "envelope" /\ EnvNumeric) =>
            /\ res[t].kind = "return"
            /\ res[t].val.minx = ds.envelope.minx.v
            /\ res[t].val.miny = ds.envelope.miny.v
            /\ res[t].val.maxx = ds.envelope.maxx.v
            /\ res[t].val.maxy = ds.envelope.maxy.v

\* envelope() has returned a box with minx > maxx and miny > maxy.
C11_Witness ==
    \E t \in AllThreads :
        /\ Done(t) /\ res[t].op = "envelope" /\ res[t].kind = "return"
        /\ ds.envelope.minx.v > ds.envelope.maxx.v
        /\ ds.envelope.miny.v > ds.envelope.maxy.v
        /\ res[t].val = DsBox

\* The finished call of t is a query that reached its external callable:
\* features_at_point always, features(q) when q intersects the envelope.
Reached(t) ==
    /\ Done(t)
    /\ res[t].op \in {"features", "features_at_point"}
    /\ ds[res[t].op].k = "callable"
    /\ res[t].op = "features" => (EnvNumeric /\ Overlaps(DsBox, res[t].arg))
\* What the callable of t's finished query returns, the argument it is to
\* be given, and the positions of its invocations in the call's accesses.
QueryRet(t) == ds[res[t].op].ret
QueryArg(t) == IF res[t].op = "features" THEN res[t].arg ELSE res[t].arg.pt
QueryCalls(t) == {i \in DOMAIN res[t].log : IsCall(res[t].log[i], res[t].op)}
\* The callable is invoked once, with the query or the point alone, and a
\* null result gives the empty featureset.
CalledOnce(t) ==
    /\ Cardinality(QueryCalls(t)) = 1
    /\ \A i \in QueryCalls(t) : res[t].log[i] = CallOf(res[t].op, QueryArg(t))
    /\ QueryRet(t) = PyNone =>
            /\ res[t].kind = "return" /\ res[t].val = EmptyFeatureset
            /\ ~fs[t].alive
\* The query returned a new featureset over the returned iterable.
WrapsResult(t) ==
    /\ res[t].kind = "return" /\ res[t].val = NewFeatureset
    /\ fs[t].alive /\ fs[t].src = QueryRet(t) /\ fs[t].out = <<>>

\* C12 as stated: a reached callable is invoked exactly once with the query
\* (features) or the point (features_at_point) as sole argument; a null
\* result gives the empty featureset and every iterable result gives a new
\* featureset over that iterable.
C12_QueryDelegation ==
    \A t \in AllThreads :
        Reached(t) =>
            /\ CalledOnce(t)
            /\ QueryRet(t).k = "iterable" => WrapsResult(t)

\* C12, amended: as above, but an iterable result gives a new featureset
\* exactly when the constructor's first fetch from its iterator does not
\* raise; when it raises the query itself fails and no featureset exists.
C12_QueryDelegationFirstFetch ==
    \A t \in AllThreads :
        Reached(t) =>
            /\ CalledOnce(t)
            /\ QueryRet(t).k = "iterable" =>
                    IF FeaturesetCtorBody(QueryRet(t)).o.kind = "return"
                    THEN WrapsResult(t)
                    ELSE res[t].kind # "return" /\ ~fs[t].alive

\* features_at_point has returned a featureset over the iterable its
\* callable gave when called with the point.
C12_Witness ==
    \E t \in AllThreads :
        /\ Reached(t) /\ res[t].op = "features_at_point"
        /\ QueryRet(t).k = "iterable" /\ Len(QueryRet(t).items) >= 2
        /\ WrapsResult(t)
        /\ CallOf("features_at_point", res[t].arg.pt) \in Range(res[t].log)

\* The cursor of t's featureset is at the end.
AtEnd(t) == fs[t].alive /\ IteratorEqual(fs[t].begin_, fs[t].end_)

\* C13: with the cursor at the end, next() neither waits for the
\* interpreter lock nor holds it nor touches the interpreter: it is never
\* at its lock acquisition or inside its guarded scope, and the terminal
\* result comes from a call that acquired nothing, entered no critical
\* section, made no interpreter access and left the lock as it was.
C13_EndIsLockFree ==
    \A t \in AllThreads :
        /\ AtEnd(t) => pc[t] \notin {"next_ensure", "next_body"}
        /\ (Done(t) /\ res[t].op = "next" /\ res[t].val = NoFeature) =>
                /\ AtEnd(t)
                /\ res[t].kind = "return"
                /\ res[t].acq = 0 /\ res[t].sections = 0 /\ res[t].delta = 0
                /\ res[t].log = <<>>

\* next() has returned the terminal result while another thread held the
\* interpreter lock inside a guarded scope.
C13_Witness ==
    \E t \in AllThreads :
        /\ Done(t) /\ res[t].op = "next" /\ res[t].val = NoFeature
        /\ res[t].holder \notin {NoThread, t}
        /\ gil.holder = res[t].holder
        /\ pc[res[t].holder] # "idle"

\* The elements taken from the external iterator of featureset f so far.
Pulled(f) == Len(f.src.items) - Len(f.begin_.it_.rest)
\* The featureset of t exists and is not being destroyed.
InUse(t) == fs[t].alive /\ pc[t] # "dtor_members"
Min(a, b) == IF a <= b THEN a ELSE b

\* C14 as stated: construction takes no element from the external
\* iterator, so after k successful next() calls exactly k elements have
\* been taken.
C14_PulledEqualsReturned ==
    \A t \in AllThreads : InUse(t) => Pulled(fs[t]) = Len(fs[t].out)

\* C14, amended: construction takes the first element of the external
\* iterator (none when it has none) and each successful next() takes one
\* more while there is one, so after construction and k successful next()
\* calls min(k + 1, N) of the N elements have been taken; a failed next()
\* and the terminal next() take none.
C14_PulledOneAhead ==
    \A t \in AllThreads :
        InUse(t) => Pulled(fs[t]) = Min(Len(fs[t].out) + 1, Len(fs[t].src.items))

\* Two next() calls have succeeded and a third element has been taken.
C14_Witness ==
    \E t \in AllThreads :
        /\ InUse(t) /\ Done(t) /\ res[t].op = "next" /\ res[t].kind = "return"
        /\ Len(fs[t].out) = 2 /\ Pulled(fs[t]) = 3

\* The positions at which a thread waits for the interpreter lock; an
\* operation leaves them by the acquisition alone.
EnsurePcs ==
    {"type_ensure", "geometry_ensure", "envelope_ensure", "features_ensure",
     "fap_ensure", "ctor_ensure", "next_ensure", "dtor_ensure"}

\* C15: no deadlock: under fair scheduling and a fair re-entrant lock,
\* every operation begun returns to the host (so it passed each of its
\* lock acquisitions), whatever the other threads do, also for a thread
\* that held the lock when it called in and for the envelope() evaluation
\* inside features().
C15_NoDeadlock ==
    \A t \in AllThreads : (pc[t] # "idle") ~> (pc[t] = "idle")

\* A thread that held the lock when it called features() is inside the
\* envelope() evaluation, the lock taken a second time, while another
\* thread waits for the lock.
C15_Witness ==
    \E t \in AllThreads, u \in AllThreads :
        /\ t # u
        /\ pc[t] = "envelope_body" /\ frame[t].op = "features"
        /\ frame[t].d0 = 1 /\ gil.depth[t] = 2
        /\ pc[u] \in EnsurePcs

\* C16: each failing element is reported by one next() call and is not
\* retried by later calls (so a host that keeps calling next() gets past
\* it and reaches the terminal result after finitely many calls): no
\* next() fails on an element on which an earlier next() failed.
C16_FailureReportedOnce ==
    \A t \in AllThreads : ~fs[t].retried

\* Every element of the iterable that featureset f wraps converts.
AllConvertible(f) == \A i \in DOMAIN f.src.items : IsFeature(f.src.items[i])

\* C17: no yielded element is lost: over an iterable whose k elements all
\* convert, also one whose iterator raises after them, a next() fails only
\* after the k records have been returned, and once the cursor is at the
\* end the host has received them all, in order.
C17_NoYieldedElementLost ==
    \A t \in AllThreads :
        (InUse(t) /\ AllConvertible(fs[t])) =>
            /\ (Done(t) /\ res[t].op = "next" /\ res[t].kind = "error_already_set")
                    => Len(fs[t].out) = Len(fs[t].src.items)
            /\ AtEnd(t) => fs[t].out = fs[t].src.items

====
